---------------------------- MODULE Spec2Model ----------------------------
(***************************************************************************)
(* Agent safety core of the repository: the loop detector                  *)
(* (chapter-20/src/loop_detector.py), the circuit breaker                  *)
(* (chapter-21/src/circuit_breaker.py) and the rate limiter                *)
(* (chapter-20/src/secure_agent.py).  The objects share no state, so each  *)
(* has its own specification over its own variables and its own reading of *)
(* the clock: SpecLD, SpecCB, SpecRL (request side of the rate limiter)    *)
(* and SpecCost (its cost side).  SpecLDExample and SpecCBExample run the  *)
(* two modules' own examples with the configurations written there.        *)
(* SpecLDStats runs a detector with the default configuration,             *)
(* SpecLDSticky one whose caller keeps calling past the iteration budget.  *)
(* SpecCBOverlap lets every caller of the breaker overlap with the others, *)
(* SpecCBCancel lets the awaited operation raise exceptions by class.      *)
(* SpecAgent is SecureAgent.execute over the rate limiter, with            *)
(* overlapping calls.                                                      *)
(***************************************************************************)
EXTENDS Integers, Sequences, FiniteSets

(* ------------------------------ bounds -------------------------------- *)
\* largest max_action_repetitions / max_total_iterations / repetition_window
\* a LoopDetectionConfig is drawn with
MaxReps == 2
MaxIter == 3
MaxWindow == 1
\* last reading of the loop detector's clock
MaxTimeLD == 2

\* the action strings and metadata arguments passed to check_action
Actions == {"X", "Y"}
NoMetadata == "None"
MetadataArgs == {NoMetadata, "pod"}

VARIABLES
    ld_cfg,            \* LoopDetector.config
    action_history,    \* LoopDetector.action_history
    iteration_count,   \* LoopDetector.iteration_count
    ld_now,            \* time.time() as the loop detector reads it
    ld_calls,          \* history variable: every check_action call since
                       \* construction or reset(), with how it ended
    ld_was_reset       \* history variable: reset() has been called

ldVars == <<ld_cfg, action_history, iteration_count, ld_now, ld_calls,
            ld_was_reset>>

VARIABLES
    cb_cfg,             \* CircuitBreaker.config
    state,              \* CircuitBreaker.state
    failure_count,      \* CircuitBreaker.failure_count
    success_count,      \* CircuitBreaker.success_count
    last_failure_time,  \* CircuitBreaker.last_failure_time (None at first)
    last_state_change,  \* CircuitBreaker.last_state_change
    cb_now,             \* datetime.now() as the breaker reads it
    cb_pc,              \* per caller: "idle", or "awaiting" func inside call()
    cb_event,           \* history variable: what the last step was
    cb_prev,            \* history variable: the breaker's fields before it
    cb_fail_run,        \* history variable: classified failures since the last
                        \* success, counted up to failure_threshold
    cb_fail_total,      \* history variable: classified failures in all,
                        \* counted up to failure_threshold
    cb_run_reached,     \* history variable: some run of consecutive failures
                        \* reached failure_threshold
    cb_trial_successes, \* history variable: successful calls since HALF_OPEN
                        \* was last entered
    cb_op,              \* history variable: what func did in the last step
    cb_result,          \* history variable: what call() handed to its caller
                        \* in the last step
    cb_count_cap,       \* how far the next two history variables count
                        \* (0 where no property reads them)
    cb_calls,           \* history variable: calls of call() so far, counted up
                        \* to cb_count_cap
    cb_invocations,     \* history variable: invocations of func so far
                        \* (FlakyService.calls), counted up to cb_count_cap
    cb_trial_invocations \* history variable: invocations of func started
                        \* since HALF_OPEN was last entered, counted up to
                        \* success_threshold + 1

breaker == <<state, failure_count, success_count, last_failure_time,
             last_state_change>>
cbHistory == <<cb_event, cb_prev, cb_fail_run, cb_fail_total, cb_run_reached,
               cb_trial_successes, cb_op, cb_result, cb_count_cap, cb_calls,
               cb_invocations, cb_trial_invocations>>
cbVars == <<cb_cfg, breaker, cb_now, cb_pc, cbHistory>>

VARIABLES
    rl_cfg,              \* RateLimiter.max_requests_per_minute
    request_timestamps,  \* RateLimiter.request_timestamps
    rl_now,              \* time.time() as the rate limiter reads it
    rl_last,             \* history variable: the last allow_request call
    rl_admitted,         \* history variable: the time of every request
                         \* allow_request has admitted
    max_cost_per_hour,   \* RateLimiter.max_cost_per_hour
    hourly_costs,        \* RateLimiter.hourly_costs
    cost_last            \* history variable: the last call of the cost side

costVars == <<max_cost_per_hour, hourly_costs, cost_last>>

VARIABLES
    audit_log,   \* SecureAgent.audit_log: the event of each entry
    sa_pc,       \* per execute() coroutine: idle, or awaiting _execute_task
                 \* with the estimated_cost it holds
    sa_calls,    \* history variable: execute() calls started
    sa_last      \* history variable: the last step of an execute() call

saVars == <<audit_log, sa_pc, sa_calls, sa_last>>
rlVars == <<rl_cfg, request_timestamps, rl_now, rl_last, rl_admitted, costVars,
            saVars>>

(* ---------------------------- LoopDetector ---------------------------- *)
LoopDetectionConfigs ==
    [max_action_repetitions : 1..MaxReps,
     max_total_iterations : 1..MaxIter,
     repetition_window : 1..MaxWindow]

\* ActionRecord(action, timestamp, metadata or {})
MutActionRecordDropsMetadata(action, timestamp, metadata) ==
    [action |-> action, timestamp |-> timestamp, metadata |-> "{}"]

ActionRecord(action, timestamp, metadata) ==
    [action |-> action, timestamp |-> timestamp,
     metadata |-> IF metadata = NoMetadata THEN "{}" ELSE metadata]

\* the records of _check_repetition's recent_actions that carry `action`
MutRepetitionCountExclusive(action, current_time) ==
    LET cutoff_time == current_time - ld_cfg.repetition_window
    IN Cardinality({i \in DOMAIN action_history :
                       /\ action_history[i].timestamp > cutoff_time
                       /\ action_history[i].action = action})

RepetitionCount(action, current_time) ==
    LET cutoff_time == current_time - ld_cfg.repetition_window
    IN Cardinality({i \in DOMAIN action_history :
                       /\ action_history[i].timestamp >= cutoff_time
                       /\ action_history[i].action = action})

\* _check_repetition raises LoopDetected
LoopDetectedRaised(action, current_time) ==
    RepetitionCount(action, current_time) >= ld_cfg.max_action_repetitions

\* check 1 of check_action raises MaxIterationsExceeded
MutMaxIterationsOnlyFirstOver(count) ==
    count = ld_cfg.max_total_iterations + 1

MutMaxIterationsOffByOne(count) ==
    count > ld_cfg.max_total_iterations + 1

MaxIterationsRaised(count) ==
    count > ld_cfg.max_total_iterations

\* how check_action(action) ends once iteration_count has been incremented
MutCheckOutcomeRepetitionFirst(action, count, current_time) ==
    IF LoopDetectedRaised(action, current_time) THEN "LoopDetected"
    ELSE IF MaxIterationsRaised(count) THEN "MaxIterationsExceeded"
    ELSE "ok"

CheckOutcome(action, count, current_time) ==
    IF MaxIterationsRaised(count) THEN "MaxIterationsExceeded"
    ELSE IF LoopDetectedRaised(action, current_time) THEN "LoopDetected"
    ELSE "ok"

InitLD ==
    /\ ld_cfg \in LoopDetectionConfigs
    /\ action_history = <<>>
    /\ iteration_count = 0
    /\ ld_now = 0
    /\ ld_calls = <<>>
    /\ ld_was_reset = FALSE

check_action(action, metadata) ==
    LET outcome == CheckOutcome(action, iteration_count + 1, ld_now)
    IN /\ iteration_count' = iteration_count + 1
       /\ action_history' =
            IF outcome = "ok"
            THEN Append(action_history, ActionRecord(action, ld_now, metadata))
            ELSE action_history
       /\ ld_calls' = Append(ld_calls,
            [action |-> action, time |-> ld_now, metadata |-> metadata,
             outcome |-> outcome])
       /\ UNCHANGED <<ld_cfg, ld_now, ld_was_reset>>
       /\ UNCHANGED <<cbVars, rlVars>>

\* check_action, called up to the first call over the iteration budget
budgeted_check_action(action, metadata) ==
    /\ Len(ld_calls) <= ld_cfg.max_total_iterations
    /\ check_action(action, metadata)

\* _get_recent_actions
MutGetRecentActionsOldest(count) ==
    LET recent == IF Len(action_history) >= count
                  THEN SubSeq(action_history, 1, count)
                  ELSE action_history
    IN [i \in DOMAIN recent |-> recent[i].action]

get_recent_actions(count) ==
    LET recent == IF Len(action_history) >= count
                  THEN SubSeq(action_history,
                              Len(action_history) - count + 1,
                              Len(action_history))
                  ELSE action_history
    IN [i \in DOMAIN recent |-> recent[i].action]

\* get_stats: the dictionary it returns
get_stats ==
    [total_iterations |-> iteration_count,
     unique_actions |->
        Cardinality({action_history[i].action : i \in DOMAIN action_history}),
     total_actions |-> Len(action_history),
     recent_actions |-> get_recent_actions(10)]

\* a call of get_stats: it assigns nothing
get_stats_call ==
    /\ UNCHANGED ldVars
    /\ UNCHANGED <<cbVars, rlVars>>

MutResetKeepsIterationCount ==
    /\ action_history' = <<>>
    /\ ld_calls' = <<>>
    /\ ld_was_reset' = TRUE
    /\ UNCHANGED <<ld_cfg, ld_now, iteration_count>>
    /\ UNCHANGED <<cbVars, rlVars>>

reset ==
    /\ action_history' = <<>>
    /\ iteration_count' = 0
    /\ ld_calls' = <<>>
    /\ ld_was_reset' = TRUE
    /\ UNCHANGED <<ld_cfg, ld_now>>
    /\ UNCHANGED <<cbVars, rlVars>>

TickLD ==
    /\ ld_now < MaxTimeLD
    /\ ld_now' = ld_now + 1
    /\ UNCHANGED <<ld_cfg, action_history, iteration_count, ld_calls,
                   ld_was_reset>>
    /\ UNCHANGED <<cbVars, rlVars>>

NextLD ==
    \/ \E a \in Actions, m \in MetadataArgs : budgeted_check_action(a, m)
    \/ reset
    \/ get_stats_call
    \/ TickLD

(* the detector of the module's example usage: max_action_repetitions 3,   *)
(* max_total_iterations 10 and the default window of 60 seconds, driven    *)
(* with two of the example's action strings and no metadata               *)
ExampleConfig ==
    [max_action_repetitions |-> 3, max_total_iterations |-> 10,
     repetition_window |-> 60]
ExampleActions == {"check_logs", "restart_pod"}
\* check_action calls made on the example detector
MaxExampleCalls == 5
\* last reading of the example detector's clock, and the steps it advances
\* by: two steps make exactly the window or one second more
MaxTimeLDExample == 62
ClockStepsLDExample == {30, 31}

InitLDExample ==
    /\ ld_cfg = ExampleConfig
    /\ action_history = <<>>
    /\ iteration_count = 0
    /\ ld_now = 0
    /\ ld_calls = <<>>
    /\ ld_was_reset = FALSE

example_check_action(action) ==
    /\ Len(ld_calls) < MaxExampleCalls
    /\ check_action(action, NoMetadata)

TickLDExample(d) ==
    /\ ld_now + d <= MaxTimeLDExample
    /\ ld_now' = ld_now + d
    /\ UNCHANGED <<ld_cfg, action_history, iteration_count, ld_calls,
                   ld_was_reset>>
    /\ UNCHANGED <<cbVars, rlVars>>

NextLDExample ==
    \/ \E a \in ExampleActions : example_check_action(a)
    \/ \E d \in ClockStepsLDExample : TickLDExample(d)

(* a caller that goes on calling check_action after it has raised          *)
\* largest max_total_iterations such a detector is constructed with, and the
\* calls made past the budget
MaxIterSticky == 2
MaxCallsOverBudget == 3

InitLDSticky ==
    /\ ld_cfg \in [max_action_repetitions : 1..MaxReps,
                    max_total_iterations : 1..MaxIterSticky,
                    repetition_window : 1..MaxWindow]
    /\ action_history = <<>>
    /\ iteration_count = 0
    /\ ld_now = 0
    /\ ld_calls = <<>>
    /\ ld_was_reset = FALSE

insistent_check_action(action) ==
    /\ Len(ld_calls) < ld_cfg.max_total_iterations + MaxCallsOverBudget
    /\ check_action(action, NoMetadata)

NextLDSticky ==
    \/ \E a \in Actions : insistent_check_action(a)
    \/ reset
    \/ TickLD

(* a detector with the default configuration, LoopDetector(), called      *)
(* often enough for its history to outgrow the ten recent actions that     *)
(* get_stats reports                                                       *)
DefaultConfig ==
    [max_action_repetitions |-> 3, max_total_iterations |-> 20,
     repetition_window |-> 60]
StatsActions == {"action_a", "action_b"}
\* check_action calls made on the default detector
MaxStatsCalls == 12
\* last reading of its clock, and the step it advances by: past the window
MaxTimeLDStats == 61
ClockStepLDStats == 61

InitLDStats ==
    /\ ld_cfg = DefaultConfig
    /\ action_history = <<>>
    /\ iteration_count = 0
    /\ ld_now = 0
    /\ ld_calls = <<>>
    /\ ld_was_reset = FALSE

stats_check_action(action) ==
    /\ Len(ld_calls) < MaxStatsCalls
    /\ check_action(action, NoMetadata)

TickLDStats ==
    /\ ld_now + ClockStepLDStats <= MaxTimeLDStats
    /\ ld_now' = ld_now + ClockStepLDStats
    /\ UNCHANGED <<ld_cfg, action_history, iteration_count, ld_calls,
                   ld_was_reset>>
    /\ UNCHANGED <<cbVars, rlVars>>

NextLDStats ==
    \/ \E a \in StatsActions : stats_check_action(a)
    \/ get_stats_call
    \/ TickLDStats


(* --------------------------- CircuitBreaker --------------------------- *)
\* largest failure_threshold / success_threshold / timeout a
\* CircuitBreakerConfig is drawn with
MaxFailureThreshold == 2
MaxSuccessThreshold == 2
MaxTimeout == 2
\* last reading of the circuit breaker's clock
MaxTimeCB == 4
\* coroutines that may call the breaker
NumCallers == 2
\* calls of call() that are made and counted in the demonstration
MaxCountedCalls == 7

Callers == 1..NumCallers
None == -1


CircuitBreakerConfigs ==
    [failure_threshold : 1..MaxFailureThreshold,
     success_threshold : 1..MaxSuccessThreshold,
     timeout : 1..MaxTimeout]

Snapshot ==
    [state |-> state, failure_count |-> failure_count,
     success_count |-> success_count,
     last_failure_time |-> last_failure_time,
     last_state_change |-> last_state_change]

Min(a, b) == IF a < b THEN a ELSE b

\* _should_attempt_reset
MutShouldAttemptResetNoTimeout ==
    last_failure_time # None

MutShouldAttemptResetStrict ==
    /\ last_failure_time # None
    /\ cb_now - last_failure_time > cb_cfg.timeout

should_attempt_reset ==
    /\ last_failure_time # None
    /\ cb_now - last_failure_time >= cb_cfg.timeout

\* _time_until_retry
time_until_retry ==
    IF last_failure_time = None THEN 0
    ELSE LET remaining == cb_cfg.timeout - (cb_now - last_failure_time)
         IN IF remaining > 0 THEN remaining ELSE 0

\* _transition_to_half_open
MutTransitionToHalfOpenKeepsState ==
    /\ success_count' = 0
    /\ last_state_change' = cb_now
    /\ UNCHANGED <<state, failure_count, last_failure_time>>

transition_to_half_open ==
    /\ state' = "HALF_OPEN"
    /\ success_count' = 0
    /\ last_state_change' = cb_now
    /\ UNCHANGED <<failure_count, last_failure_time>>

\* _on_success
MutOnSuccessKeepsFailures ==
    IF state = "HALF_OPEN"
    THEN IF success_count + 1 >= cb_cfg.success_threshold
         THEN /\ state' = "CLOSED"
              /\ failure_count' = 0
              /\ success_count' = 0
              /\ last_state_change' = cb_now
              /\ UNCHANGED last_failure_time
         ELSE /\ success_count' = success_count + 1
              /\ UNCHANGED <<state, failure_count, last_failure_time,
                             last_state_change>>
    ELSE UNCHANGED breaker

MutOnSuccessClosesWithoutReset ==
    IF state = "HALF_OPEN"
    THEN IF success_count + 1 >= cb_cfg.success_threshold
         THEN /\ state' = "CLOSED"
              /\ success_count' = success_count + 1
              /\ last_state_change' = cb_now
              /\ UNCHANGED <<failure_count, last_failure_time>>
         ELSE /\ success_count' = success_count + 1
              /\ UNCHANGED <<state, failure_count, last_failure_time,
                             last_state_change>>
    ELSE IF state = "CLOSED"
    THEN /\ failure_count' = 0
         /\ UNCHANGED <<state, success_count, last_failure_time,
                        last_state_change>>
    ELSE UNCHANGED breaker

MutOnSuccessStrict ==
    IF state = "HALF_OPEN"
    THEN IF success_count + 1 > cb_cfg.success_threshold
         THEN /\ state' = "CLOSED"
              /\ failure_count' = 0
              /\ success_count' = 0
              /\ last_state_change' = cb_now
              /\ UNCHANGED last_failure_time
         ELSE /\ success_count' = success_count + 1
              /\ UNCHANGED <<state, failure_count, last_failure_time,
                             last_state_change>>
    ELSE IF state = "CLOSED"
    THEN /\ failure_count' = 0
         /\ UNCHANGED <<state, success_count, last_failure_time,
                        last_state_change>>
    ELSE UNCHANGED breaker

on_success ==
    IF state = "HALF_OPEN"
    THEN IF success_count + 1 >= cb_cfg.success_threshold
         THEN /\ state' = "CLOSED"
              /\ failure_count' = 0
              /\ success_count' = 0
              /\ last_state_change' = cb_now
              /\ UNCHANGED last_failure_time
         ELSE /\ success_count' = success_count + 1
              /\ UNCHANGED <<state, failure_count, last_failure_time,
                             last_state_change>>
    ELSE IF state = "CLOSED"
    THEN /\ failure_count' = 0
         /\ UNCHANGED <<state, success_count, last_failure_time,
                        last_state_change>>
    ELSE UNCHANGED breaker

\* _on_failure
MutOnFailureHalfOpenNeedsThreshold ==
    /\ last_failure_time' = cb_now
    /\ IF state # "OPEN" /\ failure_count + 1 >= cb_cfg.failure_threshold
       THEN /\ state' = "OPEN"
            /\ failure_count' =
                 IF state = "HALF_OPEN" THEN 0 ELSE failure_count + 1
            /\ success_count' = 0
            /\ last_state_change' = cb_now
       ELSE /\ failure_count' = failure_count + 1
            /\ UNCHANGED <<state, success_count, last_state_change>>

MutOnFailureHalfOpenKeepsCounters ==
    /\ last_failure_time' = cb_now
    /\ IF state = "HALF_OPEN"
       THEN /\ state' = "OPEN"
            /\ failure_count' = failure_count + 1
            /\ last_state_change' = cb_now
            /\ UNCHANGED success_count
       ELSE IF state = "CLOSED"
               /\ failure_count + 1 >= cb_cfg.failure_threshold
       THEN /\ state' = "OPEN"
            /\ failure_count' = failure_count + 1
            /\ success_count' = 0
            /\ last_state_change' = cb_now
       ELSE /\ failure_count' = failure_count + 1
            /\ UNCHANGED <<state, success_count, last_state_change>>

on_failure ==
    /\ last_failure_time' = cb_now
    /\ IF state = "HALF_OPEN"
       THEN /\ state' = "OPEN"
            /\ failure_count' = 0
            /\ success_count' = 0
            /\ last_state_change' = cb_now
       ELSE IF state = "CLOSED"
               /\ failure_count + 1 >= cb_cfg.failure_threshold
       THEN /\ state' = "OPEN"
            /\ failure_count' = failure_count + 1
            /\ success_count' = 0
            /\ last_state_change' = cb_now
       ELSE /\ failure_count' = failure_count + 1
            /\ UNCHANGED <<state, success_count, last_state_change>>

\* get_state
get_state ==
    [state |-> state, failure_count |-> failure_count,
     success_count |-> success_count,
     last_failure_time |-> last_failure_time,
     last_state_change |-> last_state_change,
     time_until_retry |-> IF state = "OPEN" THEN time_until_retry ELSE 0]

\* the values func returns and the exceptions it raises
OpValues == {"v1", "v2"}
\* func was not invoked; call() has handed nothing to its caller
NotInvoked == [how |-> "not_invoked", what |-> "None"]
NoResult == [how |-> "none", what |-> "None"]

\* what func did: returned the value v or raised the exception v
OperationDid(outcome, v) ==
    [how |-> IF outcome = "returned" THEN "return" ELSE "raise", what |-> v]

\* what call() hands to its caller once func has returned or raised v
MutDeliveredSwallowsFailure(outcome, v) ==
    CASE outcome = "returned" -> [how |-> "return", what |-> v]
      [] outcome = "classified" -> [how |-> "return", what |-> "None"]
      [] outcome = "unclassified" -> [how |-> "raise", what |-> v]

Delivered(outcome, v) ==
    CASE outcome = "returned" -> [how |-> "return", what |-> v]
      [] outcome = "classified" -> [how |-> "raise", what |-> v]
      [] outcome = "unclassified" -> [how |-> "raise", what |-> v]

InitCB ==
    /\ cb_cfg \in CircuitBreakerConfigs
    /\ state = "CLOSED"
    /\ failure_count = 0
    /\ success_count = 0
    /\ last_failure_time = None
    /\ last_state_change = 0
    /\ cb_now = 0
    /\ cb_pc = [c \in Callers |-> "idle"]
    /\ cb_event = "init"
    /\ cb_prev = Snapshot
    /\ cb_fail_run = 0
    /\ cb_fail_total = 0
    /\ cb_run_reached = FALSE
    /\ cb_trial_successes = 0
    /\ cb_op = NotInvoked
    /\ cb_result = NoResult
    /\ cb_count_cap = 0
    /\ cb_calls = 0
    /\ cb_invocations = 0
    /\ cb_trial_invocations = 0

\* call(), from its entry to the await of func: the OPEN gate
call_begin(c) ==
    /\ cb_pc[c] = "idle"
    /\ cb_prev' = Snapshot
    /\ cb_op' = NotInvoked
    /\ cb_calls' = Min(cb_calls + 1, cb_count_cap)
    /\ UNCHANGED <<cb_cfg, cb_count_cap, cb_now, cb_fail_run, cb_fail_total,
                   cb_run_reached>>
    /\ UNCHANGED <<ldVars, rlVars>>
    /\ IF state = "OPEN" /\ ~should_attempt_reset
       THEN /\ cb_event' = "CircuitOpenError"
            /\ cb_result' = [how |-> "raise", what |-> "CircuitOpenError"]
            /\ UNCHANGED <<breaker, cb_pc, cb_trial_successes, cb_invocations,
                           cb_trial_invocations>>
       ELSE /\ cb_event' = "invoked"
            /\ cb_result' = NoResult
            /\ cb_invocations' = Min(cb_invocations + 1, cb_count_cap)
            /\ cb_pc' = [cb_pc EXCEPT ![c] = "awaiting"]
            /\ IF state = "OPEN"
               THEN /\ transition_to_half_open
                    /\ cb_trial_successes' = 0
                    /\ cb_trial_invocations' = 1
               ELSE /\ UNCHANGED <<breaker, cb_trial_successes>>
                    /\ cb_trial_invocations' =
                         IF state = "HALF_OPEN"
                         THEN Min(cb_trial_invocations + 1,
                                  cb_cfg.success_threshold + 1)
                         ELSE cb_trial_invocations

\* call(), from the completion of func, which returned or raised v, to its
\* return or raise
call_end_with(c, outcome, v) ==
    /\ cb_pc[c] = "awaiting"
    /\ cb_pc' = [cb_pc EXCEPT ![c] = "idle"]
    /\ cb_prev' = Snapshot
    /\ cb_op' = OperationDid(outcome, v)
    /\ cb_result' = Delivered(outcome, v)
    /\ UNCHANGED <<cb_cfg, cb_count_cap, cb_now, cb_calls, cb_invocations,
                   cb_trial_invocations>>
    /\ UNCHANGED <<ldVars, rlVars>>
    /\ CASE outcome = "returned" ->
              /\ on_success
              /\ cb_event' = "returned"
              /\ cb_fail_run' = 0
              /\ cb_trial_successes' =
                   IF state = "HALF_OPEN"
                   THEN Min(cb_trial_successes + 1, cb_cfg.success_threshold)
                   ELSE cb_trial_successes
              /\ UNCHANGED <<cb_fail_total, cb_run_reached>>
         [] outcome = "classified" ->
              /\ on_failure
              /\ cb_event' = "raised"
              /\ cb_fail_run' = Min(cb_fail_run + 1, cb_cfg.failure_threshold)
              /\ cb_fail_total' =
                   Min(cb_fail_total + 1, cb_cfg.failure_threshold)
              /\ cb_run_reached' =
                   (cb_run_reached
                      \/ cb_fail_run + 1 >= cb_cfg.failure_threshold)
              /\ UNCHANGED cb_trial_successes
         [] outcome = "unclassified" ->
              /\ cb_event' = "raised_unclassified"
              /\ UNCHANGED <<breaker, cb_fail_run, cb_fail_total,
                             cb_run_reached, cb_trial_successes>>

call_end(c, outcome) == \E v \in OpValues : call_end_with(c, outcome, v)

Outcomes == {"returned", "classified", "unclassified"}

TickCB ==
    /\ cb_now < MaxTimeCB
    /\ cb_now' = cb_now + 1
    /\ cb_event' = "clock"
    /\ cb_prev' = Snapshot
    /\ cb_op' = NotInvoked
    /\ cb_result' = NoResult
    /\ UNCHANGED <<cb_cfg, cb_count_cap, breaker, cb_pc, cb_fail_run,
                   cb_fail_total,
                   cb_run_reached, cb_trial_successes, cb_calls,
                   cb_invocations, cb_trial_invocations>>
    /\ UNCHANGED <<ldVars, rlVars>>

\* sequential use: a call starts only when no other call is in progress
NoCallInProgress == \A c \in Callers : cb_pc[c] = "idle"

call_begin_sequential(c) ==
    /\ NoCallInProgress
    /\ call_begin(c)

NextCB ==
    \/ \E c \in Callers : call_begin_sequential(c)
    \/ \E c \in Callers, o \in Outcomes : call_end(c, o)
    \/ TickCB

(* overlapping use: a call may start while another call's func is still    *)
(* awaited                                                                 *)
NextCBOverlap ==
    \/ \E c \in Callers : call_begin(c)
    \/ \E c \in Callers, o \in Outcomes : call_end(c, o)
    \/ TickCB

(* exceptions by class: the breaker's `except config.expected_exception`    *)
(* with the default expected_exception, against the classes func raises   *)
(* here: ConnectionError (FlakyService) and asyncio.CancelledError, raised *)
(* out of the await when the awaiting task is cancelled                    *)
ExceptionClasses == {"ConnectionError", "CancelledError"}
expected_exception == "Exception"

\* the class and its base classes in Python's exception hierarchy
BaseClasses(exc) ==
    CASE exc = "ConnectionError" ->
             {"ConnectionError", "OSError", "Exception", "BaseException"}
      [] exc = "CancelledError" -> {"CancelledError", "BaseException"}

IsInstance(exc, cls) == cls \in BaseClasses(exc)

\* which way an exception raised by func leaves call()'s try statement
MutClassifyCatchesAll(exc) == "classified"

Classify(exc) ==
    IF IsInstance(exc, expected_exception) THEN "classified"
    ELSE "unclassified"

\* call(), from func raising an exception of class exc to its raise
call_end_raising(c, exc) == call_end_with(c, Classify(exc), exc)

NextCBCancel ==
    \/ \E c \in Callers : call_begin_sequential(c)
    \/ \E c \in Callers, o \in Outcomes : call_end(c, o)
    \/ \E c \in Callers, exc \in ExceptionClasses : call_end_raising(c, exc)
    \/ TickCB

(* the demonstration: a breaker with failure_threshold 3, timeout 5 s and   *)
(* the default success_threshold 2 guarding FlakyService(failure_count=5)  *)
ExampleBreakerConfig ==
    [failure_threshold |-> 3, success_threshold |-> 2, timeout |-> 5]
FlakyFailures == 5
\* last reading of the demonstration's clock, and the steps it advances by
MaxTimeCBExample == 15
ClockStepsCBExample == {1, 5}

\* FlakyService.call, once it has counted the invocation
FlakyServiceCall ==
    IF cb_invocations <= FlakyFailures THEN "classified" ELSE "returned"

InitCBExample ==
    /\ cb_cfg = ExampleBreakerConfig
    /\ state = "CLOSED"
    /\ failure_count = 0
    /\ success_count = 0
    /\ last_failure_time = None
    /\ last_state_change = 0
    /\ cb_now = 0
    /\ cb_pc = [c \in Callers |-> "idle"]
    /\ cb_event = "init"
    /\ cb_prev = Snapshot
    /\ cb_fail_run = 0
    /\ cb_fail_total = 0
    /\ cb_run_reached = FALSE
    /\ cb_trial_successes = 0
    /\ cb_op = NotInvoked
    /\ cb_result = NoResult
    /\ cb_count_cap = MaxCountedCalls
    /\ cb_calls = 0
    /\ cb_invocations = 0
    /\ cb_trial_invocations = 0

\* breaker.call(service.call), one attempt after another
example_call_begin(c) ==
    /\ cb_calls < MaxCountedCalls
    /\ call_begin_sequential(c)

example_call_end(c) == call_end(c, FlakyServiceCall)

TickCBExample(d) ==
    /\ cb_now + d <= MaxTimeCBExample
    /\ cb_now' = cb_now + d
    /\ cb_event' = "clock"
    /\ cb_prev' = Snapshot
    /\ cb_op' = NotInvoked
    /\ cb_result' = NoResult
    /\ UNCHANGED <<cb_cfg, cb_count_cap, breaker, cb_pc, cb_fail_run,
                   cb_fail_total,
                   cb_run_reached, cb_trial_successes, cb_calls,
                   cb_invocations, cb_trial_invocations>>
    /\ UNCHANGED <<ldVars, rlVars>>

NextCBExample ==
    \/ \E c \in Callers : example_call_begin(c)
    \/ \E c \in Callers : example_call_end(c)
    \/ \E d \in ClockStepsCBExample : TickCBExample(d)


(* ----------------------------- RateLimiter ---------------------------- *)
\* largest max_requests_per_minute a RateLimiter is constructed with
MaxRequestsPerMinute == 2
\* last reading of the rate limiter's clock
MaxTimeRL == 150
\* the request window of allow_request, in seconds
RequestWindow == 60
\* the clock advances between calls by one of these numbers of seconds
ClockStepsRL == {20, 30}

\* the Prometheus counters rate_limit_exceeded and dow_attempts_blocked are
\* only ever incremented, never read by the limiter; they are left out

\* cutoff = current_time - 60
RequestCutoff(current_time) == current_time - RequestWindow

\* [ts for ts in self.request_timestamps if ts > cutoff]
RECURSIVE MutPruneRequestsInclusive(_, _)
MutPruneRequestsInclusive(timestamps, cutoff) ==
    IF timestamps = <<>> THEN <<>>
    ELSE LET rest == MutPruneRequestsInclusive(Tail(timestamps), cutoff)
         IN IF Head(timestamps) >= cutoff
            THEN <<Head(timestamps)>> \o rest
            ELSE rest

RECURSIVE PruneRequests(_, _)
PruneRequests(timestamps, cutoff) ==
    IF timestamps = <<>> THEN <<>>
    ELSE LET rest == PruneRequests(Tail(timestamps), cutoff)
         IN IF Head(timestamps) > cutoff
            THEN <<Head(timestamps)>> \o rest
            ELSE rest

\* len(self.request_timestamps) >= self.max_requests_per_minute
MutRateLimitedStrict(timestamps) == Len(timestamps) > rl_cfg

RateLimited(timestamps) == Len(timestamps) >= rl_cfg

InitRL ==
    /\ rl_cfg \in 0..MaxRequestsPerMinute
    /\ request_timestamps = <<>>
    /\ rl_now = 0
    /\ rl_last = [called |-> FALSE]
    /\ rl_admitted = <<>>

allow_request ==
    LET kept == PruneRequests(request_timestamps, RequestCutoff(rl_now))
        denied == RateLimited(kept)
    IN /\ request_timestamps' =
            IF denied THEN kept ELSE Append(kept, rl_now)
       /\ rl_last' = [called |-> TRUE, time |-> rl_now,
                      before |-> request_timestamps, returned |-> ~denied]
       /\ rl_admitted' =
            IF denied THEN rl_admitted ELSE Append(rl_admitted, rl_now)
       /\ UNCHANGED <<rl_cfg, rl_now>>
       /\ UNCHANGED <<ldVars, cbVars, costVars, saVars>>

TickRL(d) ==
    /\ rl_now + d <= MaxTimeRL
    /\ rl_now' = rl_now + d
    /\ UNCHANGED <<rl_cfg, request_timestamps, rl_last, rl_admitted>>
    /\ UNCHANGED <<ldVars, cbVars, costVars, saVars>>

NextRL ==
    \/ allow_request
    \/ \E d \in ClockStepsRL : TickRL(d)

(* ------------------------ RateLimiter: cost side ---------------------- *)
\* costs are whole dollars
\* largest max_cost_per_hour a RateLimiter is constructed with, and largest
\* estimate passed to allow_cost
MaxCostPerHour == 3
\* largest cost passed to record_cost
MaxCost == 2
\* longest hourly_costs explored
MaxCostEntries == 3
\* last reading of the clock in the cost specification
MaxTimeCost == 5403
\* the cost window of record_cost, in seconds
CostWindow == 3600
\* the clock advances between calls by one of these numbers of seconds
ClockStepsCost == {1800, 1801}

\* cutoff = current_time - 3600
CostCutoff(current_time) == current_time - CostWindow

\* [(ts, c) for ts, c in self.hourly_costs if ts > cutoff]
RECURSIVE PruneCosts(_, _)
PruneCosts(costs, cutoff) ==
    IF costs = <<>> THEN <<>>
    ELSE LET rest == PruneCosts(Tail(costs), cutoff)
         IN IF Head(costs).ts > cutoff
            THEN <<Head(costs)>> \o rest
            ELSE rest

\* sum(cost for _, cost in self.hourly_costs)
RECURSIVE SumCosts(_)
SumCosts(costs) ==
    IF costs = <<>> THEN 0
    ELSE Head(costs).cost + SumCosts(Tail(costs))

get_hourly_cost == SumCosts(hourly_costs)

\* current_hourly_cost + estimated_cost > self.max_cost_per_hour
MutCostDeniedInclusive(estimated_cost) ==
    get_hourly_cost + estimated_cost >= max_cost_per_hour

CostDenied(estimated_cost) ==
    get_hourly_cost + estimated_cost > max_cost_per_hour

InitCost ==
    /\ max_cost_per_hour \in 1..MaxCostPerHour
    /\ hourly_costs = <<>>
    /\ cost_last = [op |-> "none"]

record_cost(cost) ==
    /\ Len(PruneCosts(hourly_costs, CostCutoff(rl_now))) < MaxCostEntries
    /\ hourly_costs' =
         Append(PruneCosts(hourly_costs, CostCutoff(rl_now)),
                [ts |-> rl_now, cost |-> cost])
    /\ cost_last' = [op |-> "record_cost", time |-> rl_now, arg |-> cost,
                     before |-> hourly_costs]
    /\ UNCHANGED <<max_cost_per_hour, rl_cfg, request_timestamps, rl_now,
                   rl_last, rl_admitted>>
    /\ UNCHANGED <<ldVars, cbVars, saVars>>

get_hourly_cost_call ==
    /\ cost_last' = [op |-> "get_hourly_cost", time |-> rl_now,
                     before |-> hourly_costs, returned |-> get_hourly_cost]
    /\ UNCHANGED <<max_cost_per_hour, hourly_costs, rl_cfg,
                   request_timestamps, rl_now, rl_last, rl_admitted>>
    /\ UNCHANGED <<ldVars, cbVars, saVars>>

allow_cost(estimated_cost) ==
    /\ cost_last' = [op |-> "allow_cost", time |-> rl_now,
                     arg |-> estimated_cost, before |-> hourly_costs,
                     returned |-> ~CostDenied(estimated_cost)]
    /\ UNCHANGED <<max_cost_per_hour, hourly_costs, rl_cfg,
                   request_timestamps, rl_now, rl_last, rl_admitted>>
    /\ UNCHANGED <<ldVars, cbVars, saVars>>

TickCost(d) ==
    /\ rl_now + d <= MaxTimeCost
    /\ rl_now' = rl_now + d
    /\ UNCHANGED <<rl_cfg, request_timestamps, rl_last, rl_admitted, costVars>>
    /\ UNCHANGED <<ldVars, cbVars, saVars>>

NextCost ==
    \/ \E c \in 1..MaxCost : record_cost(c)
    \/ get_hourly_cost_call
    \/ \E e \in 0..MaxCostPerHour : allow_cost(e)
    \/ \E d \in ClockStepsCost : TickCost(d)

(* ----------------------------- SecureAgent ---------------------------- *)
(* execute() is split at its await of _execute_task: execute_begin runs   *)
(* the three security checks, execute_end records the cost and audits.    *)
(* Costs are whole dollars and the agent's limiter has the small limits   *)
(* the limiter specifications draw.                                        *)
\* coroutines that may run execute() on the one agent, and execute() calls
\* started
NumExecutors == 2
MaxExecutes == 3
\* last reading of the agent's clock
MaxTimeAgent == 60
Executors == 1..NumExecutors

\* what _validate_input looks at: len(str(kwargs)) > 100_000, _is_repetitive,
\* task in allowed_tasks
Inputs == [too_large : BOOLEAN, repetitive : BOOLEAN, allowed : BOOLEAN]

\* _estimate_cost grows with len(str(kwargs)): an input over the size
\* ceiling is estimated dearer than one under it
estimate_cost(input) == IF input.too_large THEN 2 ELSE 1

\* _validate_input: the exception it raises, or "none"
validate_input(input) ==
    IF input.too_large THEN "InputTooLarge"
    ELSE IF input.repetitive THEN "SuspiciousInput"
    ELSE IF ~input.allowed THEN "UnauthorizedTask"
    ELSE "none"

Idle == [pc |-> "idle"]

InitAgent ==
    /\ audit_log = <<>>
    /\ sa_pc = [c \in Executors |-> Idle]
    /\ sa_calls = 0
    /\ sa_last = [step |-> "none"]

\* execute(), from its entry to the await of _execute_task or to the
\* exception a check raises
execute_begin(c, input) ==
    LET kept == PruneRequests(request_timestamps, RequestCutoff(rl_now))
        rate_denied == RateLimited(kept)
        estimated_cost == estimate_cost(input)
        cost_denied == CostDenied(estimated_cost)
        raised == IF rate_denied THEN "RateLimitExceeded"
                  ELSE IF cost_denied THEN "CostLimitExceeded"
                  ELSE validate_input(input)
        audited == IF rate_denied THEN <<"rate_limit_exceeded">>
                   ELSE IF cost_denied THEN <<"cost_limit_exceeded">>
                   ELSE <<>>
    IN /\ sa_pc[c] = Idle
       /\ sa_calls < MaxExecutes
       /\ sa_calls' = sa_calls + 1
       /\ request_timestamps' =
            IF rate_denied THEN kept ELSE Append(kept, rl_now)
       /\ audit_log' = audit_log \o audited
       /\ sa_pc' = IF raised = "none"
                   THEN [sa_pc EXCEPT ![c] =
                            [pc |-> "awaiting",
                             estimated_cost |-> estimated_cost]]
                   ELSE sa_pc
       /\ sa_last' = [step |-> "begin", input |-> input, raised |-> raised,
                      cost_checked |-> ~rate_denied,
                      audited |-> audited]
       /\ UNCHANGED <<rl_cfg, rl_now, rl_last, rl_admitted, costVars>>
       /\ UNCHANGED <<ldVars, cbVars>>

\* execute(), from _execute_task returning a result whose 'cost' is
\* actual_cost to `return result`
execute_end_success(c, actual_cost) ==
    /\ sa_pc[c].pc = "awaiting"
    /\ actual_cost <= sa_pc[c].estimated_cost
    /\ hourly_costs' =
         Append(PruneCosts(hourly_costs, CostCutoff(rl_now)),
                [ts |-> rl_now, cost |-> actual_cost])
    /\ audit_log' = Append(audit_log, "success")
    /\ sa_pc' = [sa_pc EXCEPT ![c] = Idle]
    /\ sa_last' = [step |-> "end", raised |-> "none",
                   audited |-> <<"success">>]
    /\ UNCHANGED <<rl_cfg, request_timestamps, rl_now, rl_last, rl_admitted,
                   max_cost_per_hour, cost_last, sa_calls>>
    /\ UNCHANGED <<ldVars, cbVars>>

\* execute(), from _execute_task raising an Exception to the re-raise
execute_end_error(c) ==
    /\ sa_pc[c].pc = "awaiting"
    /\ audit_log' = Append(audit_log, "error")
    /\ sa_pc' = [sa_pc EXCEPT ![c] = Idle]
    /\ sa_last' = [step |-> "end", raised |-> "Exception",
                   audited |-> <<"error">>]
    /\ UNCHANGED <<rl_cfg, request_timestamps, rl_now, rl_last, rl_admitted,
                   costVars, sa_calls>>
    /\ UNCHANGED <<ldVars, cbVars>>

TickAgent(d) ==
    /\ rl_now + d <= MaxTimeAgent
    /\ rl_now' = rl_now + d
    /\ UNCHANGED <<rl_cfg, request_timestamps, rl_last, rl_admitted>>
    /\ UNCHANGED <<ldVars, cbVars, costVars, saVars>>

NextAgent ==
    \/ \E c \in Executors, input \in Inputs : execute_begin(c, input)
    \/ \E c \in Executors, a \in 1..MaxCost : execute_end_success(c, a)
    \/ \E c \in Executors : execute_end_error(c)
    \/ \E d \in ClockStepsRL : TickAgent(d)

(* --------------------------- specifications --------------------------- *)
vars == <<ldVars, cbVars, rlVars>>

\* the objects a specification does not exercise stay as constructed with
\* the smallest configuration
IdleLD ==
    /\ InitLD
    /\ ld_cfg = [max_action_repetitions |-> 1, max_total_iterations |-> 1,
                 repetition_window |-> 1]

IdleCB ==
    /\ InitCB
    /\ cb_cfg = [failure_threshold |-> 1, success_threshold |-> 1,
                 timeout |-> 1]

IdleCost ==
    /\ InitCost
    /\ max_cost_per_hour = 1

IdleRequests ==
    /\ InitRL
    /\ rl_cfg = 0

IdleRL == IdleRequests /\ IdleCost /\ InitAgent

InitSpecLD == InitLD /\ IdleCB /\ IdleRL

InitSpecCB == InitCB /\ IdleLD /\ IdleRL

InitSpecRL == InitRL /\ IdleCost /\ InitAgent /\ IdleLD /\ IdleCB

InitSpecCost == InitCost /\ IdleRequests /\ InitAgent /\ IdleLD /\ IdleCB

InitSpecAgent == InitRL /\ InitCost /\ InitAgent /\ IdleLD /\ IdleCB

SpecAgent == InitSpecAgent /\ [][NextAgent]_vars

SpecLD == InitSpecLD /\ [][NextLD]_vars

SpecCB == InitSpecCB /\ [][NextCB]_vars

InitSpecLDExample == InitLDExample /\ IdleCB /\ IdleRL

InitSpecLDStats == InitLDStats /\ IdleCB /\ IdleRL

InitSpecLDSticky == InitLDSticky /\ IdleCB /\ IdleRL

SpecLDSticky == InitSpecLDSticky /\ [][NextLDSticky]_vars

SpecLDStats == InitSpecLDStats /\ [][NextLDStats]_vars

InitSpecCBExample == InitCBExample /\ IdleLD /\ IdleRL

SpecCBOverlap == InitSpecCB /\ [][NextCBOverlap]_vars

SpecCBCancel == InitSpecCB /\ [][NextCBCancel]_vars

SpecCBExample == InitSpecCBExample /\ [][NextCBExample]_vars

SpecLDExample == InitSpecLDExample /\ [][NextLDExample]_vars

SpecRL == InitSpecRL /\ [][NextRL]_vars

SpecCost == InitSpecCost /\ [][NextCost]_vars

(* ------------------------------- claims ------------------------------- *)
LastCall == ld_calls[Len(ld_calls)]

OnlyActionX == \A i \in DOMAIN ld_calls : ld_calls[i].action = "X"

\* every call so far was made within repetition_window of the last one
CallsWithinWindow ==
    \A i \in DOMAIN ld_calls :
        ld_calls[i].time >= LastCall.time - ld_cfg.repetition_window

\* C1: on a fresh detector with max_action_repetitions = k <=
\* max_total_iterations, of k calls check_action("X") made within the
\* repetition window the first k-1 return normally and the k-th raises
\* LoopDetected.
C1_KthIdenticalCallRaises ==
    LET k == ld_cfg.max_action_repetitions
        j == Len(ld_calls)
    IN (/\ k <= ld_cfg.max_total_iterations
        /\ j \in 1..k
        /\ OnlyActionX
        /\ CallsWithinWindow)
       => LastCall.outcome = IF j = k THEN "LoopDetected" ELSE "ok"

\* C3: the (max_total_iterations + 1)-th check_action call since
\* construction or the last reset raises MaxIterationsExceeded, whatever the
\* actions and outcomes of the calls so far, also when its action has
\* reached the repetition threshold.
C3_CallAfterBudgetRaisesMaxIterations ==
    Len(ld_calls) = ld_cfg.max_total_iterations + 1
        => LastCall.outcome = "MaxIterationsExceeded"

\* the call over budget repeats an action at its repetition threshold, after
\* an earlier call raised LoopDetected
C3_Witness ==
    /\ Len(ld_calls) = ld_cfg.max_total_iterations + 1
    /\ LastCall.outcome = "MaxIterationsExceeded"
    /\ LoopDetectedRaised(LastCall.action, LastCall.time)
    /\ \E i \in DOMAIN ld_calls : ld_calls[i].outcome = "LoopDetected"

\* the entries of a timestamp sequence inside the 60 seconds that end at t
RECURSIVE InsideWindow(_, _)
InsideWindow(timestamps, t) ==
    IF timestamps = <<>> THEN <<>>
    ELSE IF t - Head(timestamps) < RequestWindow
         THEN <<Head(timestamps)>> \o InsideWindow(Tail(timestamps), t)
         ELSE InsideWindow(Tail(timestamps), t)

\* C4: allow_request drops every timestamp outside the trailing 60-second
\* window, then returns false and appends nothing when the entries left are
\* >= max_requests_per_minute, and otherwise appends the current time and
\* returns true; after every call len(request_timestamps) <=
\* max_requests_per_minute.
C4_AllowRequest ==
    rl_last.called =>
        LET kept == InsideWindow(rl_last.before, rl_last.time)
        IN /\ IF Len(kept) >= rl_cfg
              THEN /\ rl_last.returned = FALSE
                   /\ request_timestamps = kept
              ELSE /\ rl_last.returned = TRUE
                   /\ request_timestamps = Append(kept, rl_last.time)
           /\ Len(request_timestamps) <= rl_cfg

\* a request denied at a full window: nothing was appended
C4_Witness ==
    /\ rl_last.called
    /\ rl_last.returned = FALSE
    /\ rl_cfg >= 1
    /\ request_timestamps = rl_last.before
    /\ rl_last.time > 0

CallAttempted == cb_event \in {"invoked", "CircuitOpenError"}

\* seconds from the last failure to the call that cb_event reports
ElapsedAtCall == cb_now - cb_prev.last_failure_time

\* C2: a call attempted in OPEN less than timeout seconds after
\* last_failure_time raises CircuitOpenError, does not invoke the operation
\* and leaves the state OPEN; after failure_threshold consecutive classified
\* failures from CLOSED the state is OPEN and such a call is rejected.
C2_FailFast ==
    /\ (/\ CallAttempted
        /\ cb_prev.state = "OPEN"
        /\ cb_prev.last_failure_time # None
        /\ ElapsedAtCall < cb_cfg.timeout)
       => /\ cb_event = "CircuitOpenError"
          /\ state = "OPEN"
          /\ NoCallInProgress
    /\ (/\ cb_event = "raised"
        /\ cb_prev.state = "CLOSED"
        /\ cb_fail_run >= cb_cfg.failure_threshold)
       => /\ state = "OPEN"
          /\ last_failure_time # None
          /\ cb_now - last_failure_time < cb_cfg.timeout

\* a call rejected while OPEN
C2_Witness ==
    /\ cb_event = "CircuitOpenError"
    /\ cb_prev.state = "OPEN"
    /\ state = "OPEN"
    /\ ElapsedAtCall < cb_cfg.timeout

\* C5: the state starts CLOSED and changes only CLOSED->OPEN (a classified
\* failure making failure_count >= failure_threshold), OPEN->HALF_OPEN (a
\* call attempted at least timeout seconds after last_failure_time),
\* HALF_OPEN->CLOSED (a success making success_count >= success_threshold)
\* and HALF_OPEN->OPEN (any single classified failure).
C5_Transitions ==
    /\ cb_event = "init" => state = "CLOSED"
    /\ (cb_prev.state = "CLOSED" /\ state # "CLOSED")
       => /\ state = "OPEN"
          /\ cb_event = "raised"
          /\ cb_prev.failure_count + 1 >= cb_cfg.failure_threshold
    /\ (cb_prev.state = "OPEN" /\ state # "OPEN")
       => /\ state = "HALF_OPEN"
          /\ cb_event = "invoked"
          /\ cb_prev.last_failure_time # None
          /\ ElapsedAtCall >= cb_cfg.timeout
    /\ (cb_prev.state = "HALF_OPEN" /\ state = "CLOSED")
       => /\ cb_event = "returned"
          /\ cb_prev.success_count + 1 >= cb_cfg.success_threshold
    /\ (cb_prev.state = "HALF_OPEN" /\ state = "OPEN")
       => cb_event = "raised"
    /\ (cb_prev.state = "HALF_OPEN" /\ cb_event = "raised")
       => state = "OPEN"

\* HALF_OPEN left for OPEN by one failure with failure_threshold > 1
C5_Witness ==
    /\ cb_prev.state = "HALF_OPEN"
    /\ cb_event = "raised"
    /\ state = "OPEN"
    /\ cb_cfg.failure_threshold > 1

\* C6: in CLOSED a success keeps the state and zeroes failure_count; the
\* breaker leaves CLOSED exactly when failure_threshold classified failures
\* have occurred with no success between them, however many failures there
\* were in all.
C6_ConsecutiveFailuresOpen ==
    /\ (cb_prev.state = "CLOSED" /\ cb_event = "returned")
       => (state = "CLOSED" /\ failure_count = 0)
    /\ (cb_prev.state = "CLOSED" /\ cb_event = "raised")
       => (state = "OPEN" <=> cb_fail_run >= cb_cfg.failure_threshold)
    /\ ~cb_run_reached => state = "CLOSED"

\* failure_threshold failures in all, never that many in a row: still CLOSED
C6_Witness ==
    /\ cb_event = "raised"
    /\ cb_fail_total >= cb_cfg.failure_threshold
    /\ ~cb_run_reached
    /\ state = "CLOSED"

\* C7: the state leaves OPEN only at a call, never by the clock alone; a
\* call attempted at least timeout seconds after last_failure_time moves the
\* state to HALF_OPEN with success_count = 0 and invokes the operation.
C7_LazyRecovery ==
    /\ cb_event = "clock" => state = cb_prev.state
    /\ (cb_prev.state = "OPEN" /\ state # "OPEN") => cb_event = "invoked"
    /\ (/\ CallAttempted
        /\ cb_prev.state = "OPEN"
        /\ cb_prev.last_failure_time # None
        /\ ElapsedAtCall >= cb_cfg.timeout)
       => /\ cb_event = "invoked"
          /\ state = "HALF_OPEN"
          /\ success_count = 0
          /\ \E c \in Callers : cb_pc[c] = "awaiting"

\* the probing call made exactly timeout seconds after the last failure
C7_Witness ==
    /\ cb_event = "invoked"
    /\ cb_prev.state = "OPEN"
    /\ state = "HALF_OPEN"
    /\ ElapsedAtCall = cb_cfg.timeout

\* C8: one classified failure in HALF_OPEN moves the state to OPEN with both
\* counters 0 and last_failure_time the time of that failure, whatever
\* success_count was; a call within timeout seconds of it is rejected.
C8_HalfOpenFailureReopens ==
    /\ (cb_prev.state = "HALF_OPEN" /\ cb_event = "raised")
       => /\ state = "OPEN"
          /\ failure_count = 0
          /\ success_count = 0
          /\ last_failure_time = cb_now
    /\ (/\ CallAttempted
        /\ cb_prev.state = "OPEN"
        /\ ElapsedAtCall < cb_cfg.timeout)
       => (cb_event = "CircuitOpenError" /\ state = "OPEN")

\* a failure in HALF_OPEN after a success had been counted
C8_Witness ==
    /\ cb_prev.state = "HALF_OPEN"
    /\ cb_prev.success_count >= 1
    /\ cb_event = "raised"
    /\ state = "OPEN"

\* C9: in HALF_OPEN the success_threshold-th successful call moves the state
\* to CLOSED with both counters 0; fewer successes leave it HALF_OPEN.
C9_HalfOpenSuccessesClose ==
    /\ (cb_prev.state = "HALF_OPEN" /\ cb_event = "returned")
       => IF cb_trial_successes >= cb_cfg.success_threshold
          THEN state = "CLOSED" /\ failure_count = 0 /\ success_count = 0
          ELSE state = "HALF_OPEN"
    /\ state = "HALF_OPEN" => cb_trial_successes < cb_cfg.success_threshold

\* the second of two successes in HALF_OPEN closes the breaker
C9_Witness ==
    /\ cb_prev.state = "HALF_OPEN"
    /\ cb_prev.success_count >= 1
    /\ cb_event = "returned"
    /\ state = "CLOSED"

\* C10: right after the transition from CLOSED to OPEN failure_count and
\* success_count are both 0, and get_state() reports failure_count = 0.
C10_CountersZeroOnOpening ==
    (cb_prev.state = "CLOSED" /\ state = "OPEN")
        => /\ failure_count = 0
           /\ success_count = 0
           /\ get_state.failure_count = 0

\* the sum of the cost entries recorded no more than 3600 seconds before t
RECURSIVE SumWithinHour(_, _)
SumWithinHour(costs, t) ==
    IF costs = <<>> THEN 0
    ELSE (IF t - Head(costs).ts <= CostWindow THEN Head(costs).cost ELSE 0)
         + SumWithinHour(Tail(costs), t)

\* C11: at every call of allow_cost and of get_hourly_cost no cost entry
\* recorded more than 3600 seconds before the call contributes to the sum or
\* to the admission decision.
C11_StaleCostsDoNotCount ==
    /\ cost_last.op = "get_hourly_cost"
       => cost_last.returned = SumWithinHour(cost_last.before, cost_last.time)
    /\ cost_last.op = "allow_cost"
       => cost_last.returned =
            ~(SumWithinHour(cost_last.before, cost_last.time) + cost_last.arg
                > max_cost_per_hour)

\* C12: allow_cost(e) returns false exactly when get_hourly_cost() + e >
\* max_cost_per_hour and true otherwise (equality is allowed), and leaves
\* hourly_costs unchanged.
C12_AllowCost ==
    cost_last.op = "allow_cost"
        => /\ cost_last.returned =
                ~(SumCosts(cost_last.before) + cost_last.arg
                    > max_cost_per_hour)
           /\ hourly_costs = cost_last.before

\* an estimate that brings the recorded cost exactly to the limit is allowed
C12_Witness ==
    /\ cost_last.op = "allow_cost"
    /\ cost_last.before # <<>>
    /\ cost_last.arg >= 1
    /\ SumCosts(cost_last.before) + cost_last.arg = max_cost_per_hour
    /\ cost_last.returned = TRUE

\* the admitted requests whose time lies in the 60 seconds that end at t
AdmittedInWindow(admitted, t) ==
    Cardinality({i \in DOMAIN admitted :
                    admitted[i] <= t /\ t - admitted[i] < RequestWindow})

\* the admitted requests before the last allow_request call
AdmittedBeforeLastCall ==
    IF rl_last.returned
    THEN SubSeq(rl_admitted, 1, Len(rl_admitted) - 1)
    ELSE rl_admitted

\* C13: with max_requests_per_minute = m, a call is admitted exactly when
\* fewer than m admitted requests lie in the trailing 60 seconds (so m calls
\* at one instant are admitted, the next is denied, and each timestamp that
\* ages out frees one admission), and at every time t at most m admitted
\* requests lie in the 60 seconds that end at t.
C13_SlidingWindow ==
    /\ \A t \in 0..rl_now : AdmittedInWindow(rl_admitted, t) <= rl_cfg
    /\ rl_last.called
       => rl_last.returned =
            (AdmittedInWindow(AdmittedBeforeLastCall, rl_last.time) < rl_cfg)

\* a burst of m requests at one instant, and a later request admitted once
\* they have aged out
C13_Witness ==
    /\ rl_cfg >= 2
    /\ rl_last.called
    /\ rl_last.returned = TRUE
    /\ Len(rl_admitted) > rl_cfg
    /\ rl_admitted[1] = rl_admitted[rl_cfg]
    /\ rl_last.time - rl_admitted[1] = RequestWindow

\* C15: len(action_history) <= max_total_iterations and len(action_history)
\* <= iteration_count in every state reachable by check_action, get_stats and
\* reset; no call whose iteration number exceeds max_total_iterations
\* appends a record.
C15_HistoryBound ==
    /\ Len(action_history) <= ld_cfg.max_total_iterations
    /\ Len(action_history) <= iteration_count
    /\ \A i \in DOMAIN ld_calls :
          i > ld_cfg.max_total_iterations => ld_calls[i].outcome # "ok"

\* the history is full and a further call was turned away
C15_Witness ==
    /\ Len(action_history) = ld_cfg.max_total_iterations
    /\ Len(ld_calls) > ld_cfg.max_total_iterations
    /\ ld_cfg.max_total_iterations >= 2

\* the records that the calls which returned normally must have appended
RECURSIVE RecordsOfNormalReturns(_)
RecordsOfNormalReturns(calls) ==
    IF calls = <<>> THEN <<>>
    ELSE LET c == Head(calls)
         IN (IF c.outcome = "ok"
             THEN <<[action |-> c.action, timestamp |-> c.time,
                     metadata |-> IF c.metadata = NoMetadata
                                  THEN "{}" ELSE c.metadata]>>
             ELSE <<>>)
            \o RecordsOfNormalReturns(Tail(calls))

\* C16: a check_action call appends exactly one ActionRecord (the action,
\* the current time, the metadata or an empty map) to the end of
\* action_history if and only if it returns normally; a call that raises
\* leaves action_history unchanged.
C16_RecordIffNormalReturn ==
    action_history = RecordsOfNormalReturns(ld_calls)

\* a recorded call with metadata, then a call that raised, then one without
C16_Witness ==
    /\ Len(ld_calls) >= 3
    /\ \E i, j, k \in DOMAIN ld_calls :
          /\ i < j /\ j < k
          /\ ld_calls[i].outcome = "ok" /\ ld_calls[i].metadata = "pod"
          /\ ld_calls[j].outcome = "LoopDetected"
          /\ ld_calls[k].outcome = "ok" /\ ld_calls[k].metadata = NoMetadata
    /\ Len(action_history) = 2


\* LoopDetector(config) followed by the check_action calls of `calls`, each
\* made at the clock reading it carries: the detector's fields and how every
\* call ended
RECURSIVE FreshDetectorAfter(_, _)
FreshDetectorAfter(config, calls) ==
    IF calls = <<>>
    THEN [action_history |-> <<>>, iteration_count |-> 0, outcomes |-> <<>>]
    ELSE LET before ==
                 FreshDetectorAfter(config, SubSeq(calls, 1, Len(calls) - 1))
             c == calls[Len(calls)]
             count == before.iteration_count + 1
             cutoff_time == c.time - config.repetition_window
             repetition_count ==
                 Cardinality({i \in DOMAIN before.action_history :
                     /\ before.action_history[i].timestamp >= cutoff_time
                     /\ before.action_history[i].action = c.action})
             outcome ==
                 IF count > config.max_total_iterations
                 THEN "MaxIterationsExceeded"
                 ELSE IF repetition_count >= config.max_action_repetitions
                 THEN "LoopDetected"
                 ELSE "ok"
         IN [action_history |->
                 IF outcome = "ok"
                 THEN Append(before.action_history,
                             ActionRecord(c.action, c.time, c.metadata))
                 ELSE before.action_history,
             iteration_count |-> count,
             outcomes |-> Append(before.outcomes, outcome)]

\* get_stats() of a detector with the fields of `d`
StatsOf(d) ==
    LET recent == IF Len(d.action_history) >= 10
                  THEN SubSeq(d.action_history, Len(d.action_history) - 9,
                              Len(d.action_history))
                  ELSE d.action_history
    IN [total_iterations |-> d.iteration_count,
        unique_actions |->
           Cardinality({d.action_history[i].action :
                           i \in DOMAIN d.action_history}),
        total_actions |-> Len(d.action_history),
        recent_actions |-> [i \in DOMAIN recent |-> recent[i].action]]

\* C20: right after reset() the history is empty and the counter is 0, and
\* from then on the detector is indistinguishable from a newly constructed
\* one with the same config: whatever calls have been made since the last
\* reset(), at whatever clock readings, they ended as they would have on a new
\* detector, and get_stats() returns what the new detector's would.
C20_ResetIsFresh ==
    LET fresh == FreshDetectorAfter(ld_cfg, ld_calls)
    IN /\ ld_calls = <<>> => action_history = <<>> /\ iteration_count = 0
       /\ [i \in DOMAIN ld_calls |-> ld_calls[i].outcome] = fresh.outcomes
       /\ get_stats = StatsOf(fresh)

\* after a reset() that followed earlier calls (the clock has moved on), calls
\* ended in each of the three ways
C20_Witness ==
    /\ ld_was_reset
    /\ ld_calls # <<>> /\ ld_calls[1].time > 0
    /\ \E i, j, k \in DOMAIN ld_calls :
          /\ ld_calls[i].outcome = "ok"
          /\ ld_calls[j].outcome = "LoopDetected"
          /\ ld_calls[k].outcome = "MaxIterationsExceeded"


\* the earlier calls that left a record the call number j counts: same action,
\* returned normally, made at or after the cutoff of call j
CountedByCall(j) ==
    {i \in 1..(j - 1) :
        /\ ld_calls[i].outcome = "ok"
        /\ ld_calls[i].action = ld_calls[j].action
        /\ ld_calls[i].time >= ld_calls[j].time - ld_cfg.repetition_window}

\* C14: a recorded action counts toward the threshold of a later call of the
\* same action exactly when its timestamp is at or after (now - w), the
\* boundary included, so a call within the iteration budget raises
\* LoopDetected exactly when the records counted so reach the threshold; and
\* with a threshold of 3, two calls of one action, a clock advance of more
\* than w, and two more calls of it all return normally.
C14_TimeWindow ==
    /\ \A j \in DOMAIN ld_calls :
          ld_calls[j].outcome # "MaxIterationsExceeded"
          => (ld_calls[j].outcome = "LoopDetected"
                <=> Cardinality(CountedByCall(j))
                      >= ld_cfg.max_action_repetitions)
    /\ ( /\ ld_cfg.max_action_repetitions = 3
         /\ Len(ld_calls) >= 4
         /\ \A i \in 1..4 : ld_calls[i].action = ld_calls[1].action
         /\ ld_calls[3].time > ld_calls[2].time + ld_cfg.repetition_window )
       => \A i \in 1..4 : ld_calls[i].outcome = "ok"

\* two calls of "restart_pod", the clock advanced by 61 s, two more calls
C14_Witness ==
    /\ ld_cfg.max_action_repetitions = 3
    /\ Len(ld_calls) = 4
    /\ \A i \in 1..4 : /\ ld_calls[i].action = "restart_pod"
                        /\ ld_calls[i].outcome = "ok"
    /\ ld_calls[2].time = ld_calls[1].time
    /\ ld_calls[3].time > ld_calls[2].time + ld_cfg.repetition_window
    /\ ld_calls[4].time = ld_calls[3].time

\* the actions of the calls made so far, in order
ActionsCalled == [i \in DOMAIN ld_calls |-> ld_calls[i].action]

\* C17: repetitions are counted per action string; with the example config,
\* the calls check, restart, check, restart, restart made within the window
\* end ok, ok, ok, ok, LoopDetected; and calls of pairwise different actions
\* never raise LoopDetected.
C17_InterleavedActions ==
    /\ ( /\ ld_cfg = ExampleConfig
         /\ ActionsCalled = <<"check_logs", "restart_pod", "check_logs",
                              "restart_pod", "restart_pod">>
         /\ ld_calls[5].time - ld_calls[1].time
               <= ld_cfg.repetition_window )
       => [i \in DOMAIN ld_calls |-> ld_calls[i].outcome]
            = <<"ok", "ok", "ok", "ok", "LoopDetected">>
    /\ (\A i, j \in DOMAIN ld_calls :
            i # j => ld_calls[i].action # ld_calls[j].action)
       => \A i \in DOMAIN ld_calls : ld_calls[i].outcome # "LoopDetected"


\* C18: when func returns a value call() returns that value; when func
\* raises, classified as a failure or not, call() raises that exception;
\* and call() raises CircuitOpenError only when func was not invoked.
C18_PassThrough ==
    /\ cb_event \in {"returned", "raised", "raised_unclassified"}
       => /\ cb_op.how \in {"return", "raise"}
          /\ cb_op.how = "return" <=> cb_event = "returned"
          /\ cb_result = cb_op
    /\ cb_result.what = "CircuitOpenError"
       => cb_op = NotInvoked /\ cb_event = "CircuitOpenError"
    /\ cb_event = "CircuitOpenError"
       => cb_result = [how |-> "raise", what |-> "CircuitOpenError"]

\* the trial call of a HALF_OPEN breaker fails: the breaker reopens and the
\* caller still gets the operation's own exception
C18_Witness ==
    /\ cb_event = "raised"
    /\ cb_prev.state = "HALF_OPEN" /\ state = "OPEN"
    /\ cb_op = [how |-> "raise", what |-> "v2"]
    /\ cb_result = cb_op


\* the last step was the completion of a call that had invoked func
CallCompleted == cb_event \in {"returned", "raised", "raised_unclassified"}

\* func invocations before the call attempt that cb_event reports
InvocationsBeforeCall ==
    cb_invocations - (IF cb_event = "invoked" THEN 1 ELSE 0)

\* C19: with {failure_threshold 3, success_threshold 2, timeout 5} and an
\* operation failing on its first five invocations: calls 1-3 invoke the
\* operation and re-raise its error, and the state is OPEN after the 3rd;
\* call 4, made before the timeout has passed, raises CircuitOpenError
\* without invoking the operation; call 5, made once 5 s have passed, moves
\* the state to HALF_OPEN and invokes the operation, which fails, and the
\* state is OPEN again when the call has ended.
C19_EndToEndTrace ==
    /\ (cb_calls \in 1..3 /\ (CallAttempted \/ CallCompleted))
       => /\ cb_event \in {"invoked", "raised"}
          /\ cb_invocations = cb_calls
          /\ cb_event = "raised"
             => /\ cb_op.how = "raise" /\ cb_result = cb_op
                /\ state = IF cb_calls = 3 THEN "OPEN" ELSE "CLOSED"
    /\ (cb_calls = 3 /\ NoCallInProgress) => state = "OPEN"
    /\ (cb_calls = 4 /\ CallAttempted /\ ElapsedAtCall < cb_cfg.timeout)
       => /\ cb_event = "CircuitOpenError"
          /\ cb_invocations = 3
          /\ state = "OPEN"
    /\ ( /\ cb_calls = 5 /\ CallAttempted
         /\ InvocationsBeforeCall = 3
         /\ ElapsedAtCall >= cb_cfg.timeout )
       => /\ cb_event = "invoked"
          /\ cb_prev.state = "OPEN" /\ state = "HALF_OPEN"
    /\ (cb_calls = 5 /\ cb_invocations = 4 /\ CallCompleted)
       => /\ cb_event = "raised"
          /\ cb_op.how = "raise" /\ cb_result = cb_op
          /\ cb_prev.state = "HALF_OPEN" /\ state = "OPEN"

\* three failures at time 0, a rejected fourth call, and the fifth call at
\* time 5 has just failed in HALF_OPEN
C19_Witness ==
    /\ cb_cfg = ExampleBreakerConfig
    /\ cb_calls = 5 /\ cb_invocations = 4
    /\ cb_event = "raised"
    /\ cb_prev.state = "HALF_OPEN" /\ state = "OPEN"
    /\ cb_now = 5 /\ last_failure_time = 5


\* the action strings of the calls among the first n that returned normally,
\* in call order
RECURSIVE RecordedActions(_)
RecordedActions(n) ==
    IF n = 0 THEN <<>>
    ELSE IF ld_calls[n].outcome = "ok"
         THEN Append(RecordedActions(n - 1), ld_calls[n].action)
         ELSE RecordedActions(n - 1)

\* the last Min(count, Len(seq)) elements of seq
LastOf(seq, count) ==
    SubSeq(seq, Len(seq) - Min(count, Len(seq)) + 1, Len(seq))

\* C21: get_stats leaves action_history and iteration_count as they are, so
\* whenever it is called, and however often it has been, it returns
\* total_iterations = the check_action calls made since construction or the
\* last reset, raising ones included; total_actions = those that returned
\* normally; unique_actions = the distinct action strings recorded; and
\* recent_actions = the last min(10, total_actions) recorded strings in call
\* order.
C21_GetStats ==
    LET recorded == RecordedActions(Len(ld_calls))
    IN /\ get_stats.total_iterations = Len(ld_calls)
       /\ get_stats.total_actions = Len(recorded)
       /\ get_stats.unique_actions =
            Cardinality({recorded[i] : i \in DOMAIN recorded})
       /\ get_stats.recent_actions = LastOf(recorded, 10)

\* eleven recorded actions of both kinds and a call that raised: the oldest
\* record is not among the recent actions
C21_Witness ==
    /\ Len(action_history) = 11
    /\ Len(ld_calls) = 12
    /\ get_stats.unique_actions = 2
    /\ Len(get_stats.recent_actions) = 10
    /\ action_history[1].action # action_history[11].action


\* C27: every check_action call, raising or not, adds exactly 1 to
\* iteration_count and only reset() lowers it; so once a call has raised
\* MaxIterationsExceeded every later call does, whatever its action and
\* time, until reset(); every call past the budget raises it; and a loop that
\* stops at the first exception has made at most max_total_iterations + 1
\* calls.
C27_StickyBudget ==
    /\ iteration_count = Len(ld_calls)
    /\ \A i, j \in DOMAIN ld_calls :
          (i < j /\ ld_calls[i].outcome = "MaxIterationsExceeded")
          => ld_calls[j].outcome = "MaxIterationsExceeded"
    /\ \A j \in DOMAIN ld_calls :
          j > ld_cfg.max_total_iterations
          => ld_calls[j].outcome = "MaxIterationsExceeded"
    /\ Len(ld_calls) > ld_cfg.max_total_iterations
       => \E i \in 1..(ld_cfg.max_total_iterations + 1) :
             ld_calls[i].outcome # "ok"

\* after a reset, a budget of two used up by normal returns, then three
\* calls of different actions at different times, all refused
C27_Witness ==
    /\ ld_was_reset
    /\ ld_cfg.max_total_iterations = 2
    /\ Len(ld_calls) = 5
    /\ ld_calls[1].outcome = "ok" /\ ld_calls[2].outcome = "ok"
    /\ \A j \in 3..5 : ld_calls[j].outcome = "MaxIterationsExceeded"
    /\ ld_calls[3].action # ld_calls[4].action
    /\ ld_calls[4].time < ld_calls[5].time
    /\ iteration_count = 5


\* C28: under sequential use, in every state between calls,
\* 0 <= failure_count <= failure_threshold, 0 <= success_count <
\* success_threshold, success_count > 0 only in HALF_OPEN, failure_count <
\* failure_threshold in CLOSED, and last_failure_time is set in OPEN and in
\* HALF_OPEN.
C28_CounterInvariants ==
    NoCallInProgress
    => /\ 0 <= failure_count /\ failure_count <= cb_cfg.failure_threshold
       /\ 0 <= success_count /\ success_count < cb_cfg.success_threshold
       /\ success_count > 0 => state = "HALF_OPEN"
       /\ state = "CLOSED" => failure_count < cb_cfg.failure_threshold
       /\ state \in {"OPEN", "HALF_OPEN"} => last_failure_time # None

\* between calls in HALF_OPEN, one success counted and the failure count
\* still at the threshold that opened the circuit
C28_Witness ==
    /\ NoCallInProgress
    /\ state = "HALF_OPEN"
    /\ success_count = 1
    /\ failure_count = cb_cfg.failure_threshold
    /\ cb_cfg.failure_threshold = 2


\* the last step was func raising an exception of class exc out of call()
RaisedOutOfCall(exc) ==
    /\ CallCompleted
    /\ cb_op = [how |-> "raise", what |-> exc]

\* C30: an exception of func that does not match expected_exception counts
\* neither as a success nor as a failure: state, failure_count,
\* success_count, last_failure_time and last_state_change are as they were
\* before func completed, and the exception reaches the caller.
C30_UnclassifiedLeavesBreaker ==
    /\ cb_event = "raised_unclassified"
       => /\ Snapshot = cb_prev
          /\ cb_op.how = "raise" /\ cb_result = cb_op
    /\ \A exc \in ExceptionClasses :
          (RaisedOutOfCall(exc) /\ ~IsInstance(exc, expected_exception))
          => cb_event = "raised_unclassified"

\* a trial call in HALF_OPEN, one success already counted, ends with an
\* exception outside expected_exception
C30_Witness ==
    /\ RaisedOutOfCall("CancelledError")
    /\ cb_event = "raised_unclassified"
    /\ state = "HALF_OPEN" /\ success_count = 1
    /\ failure_count > 0

\* C25: with the default expected_exception, a cancellation propagating out
\* of the await is counted as a failure: last_failure_time is updated,
\* failure_count is incremented (or zeroed with the return to OPEN), CLOSED
\* opens at the threshold and HALF_OPEN returns to OPEN.
C25_CancellationCountsAsFailure ==
    RaisedOutOfCall("CancelledError")
    => /\ last_failure_time = cb_now
       /\ cb_prev.state = "HALF_OPEN"
          => state = "OPEN" /\ failure_count = 0
       /\ cb_prev.state = "CLOSED"
          => /\ failure_count = cb_prev.failure_count + 1
             /\ failure_count >= cb_cfg.failure_threshold => state = "OPEN"


\* C22: within one HALF_OPEN episode at most success_threshold invocations
\* of the guarded operation are started, also when calls overlap.
C22_LimitedTrialCalls ==
    state = "HALF_OPEN" => cb_trial_invocations <= cb_cfg.success_threshold

\* C29: when func completes, with success or with a classified failure,
\* while the breaker is OPEN (another call has opened it meanwhile), none of
\* state, failure_count, success_count and last_failure_time changes.
C29_LateCompletionIgnored ==
    (cb_event \in {"returned", "raised"} /\ cb_prev.state = "OPEN")
    => /\ state = cb_prev.state
       /\ failure_count = cb_prev.failure_count
       /\ success_count = cb_prev.success_count
       /\ last_failure_time = cb_prev.last_failure_time


\* the exceptions with which execute() rejects a call
Rejections ==
    {"RateLimitExceeded", "CostLimitExceeded", "InputTooLarge",
     "SuspiciousInput", "UnauthorizedTask"}

\* the audit event that names the guard behind a rejection
GuardEvent(raised) ==
    CASE raised = "RateLimitExceeded" -> "rate_limit_exceeded"
      [] raised = "CostLimitExceeded" -> "cost_limit_exceeded"
      [] raised = "InputTooLarge" -> "input_too_large"
      [] raised = "SuspiciousInput" -> "suspicious_input"
      [] raised = "UnauthorizedTask" -> "unauthorized_task"

\* C23: input screening comes before cost estimation: for an input over the
\* size ceiling or flagged as repetitive, an execute() call that the rate
\* limit lets through raises InputTooLarge or SuspiciousInput without
\* _estimate_cost / allow_cost having been evaluated, whatever the hourly
\* cost is.
C23_ScreeningBeforeCost ==
    ( /\ sa_last.step = "begin"
      /\ sa_last.input.too_large \/ sa_last.input.repetitive
      /\ sa_last.raised # "RateLimitExceeded" )
    => /\ sa_last.raised \in {"InputTooLarge", "SuspiciousInput"}
       /\ ~sa_last.cost_checked

\* C24: every rejection raised by execute() comes with exactly one audit
\* entry appended for that call, which names the guard that fired; and
\* every execute() call that has ended has appended at least one entry.
C24_AuditTrail ==
    /\ (sa_last.step = "begin" /\ sa_last.raised \in Rejections)
       => /\ Len(sa_last.audited) = 1
          /\ sa_last.audited[1] = GuardEvent(sa_last.raised)
    /\ (sa_last.step = "end" \/ (sa_last.step = "begin"
                                    /\ sa_last.raised # "none"))
       => Len(sa_last.audited) >= 1

\* C26: with every caller following allow_cost(e), the awaited operation,
\* record_cost(a) with a <= e, get_hourly_cost() never exceeds
\* max_cost_per_hour, also when two execute() calls on the agent overlap.
C26_BudgetUnderOverlap ==
    get_hourly_cost <= max_cost_per_hour

=============================================================================
